---- MODULE Spec2Model ----
(***************************************************************************)
(* Node lifecycle of the waku bindings (waku/src/node/mod.rs).             *)
(*                                                                         *)
(* The process holds one static, WAKU_NODE_INITIALIZED : Mutex<bool>.      *)
(* waku_new and stop_node lock it for their whole body; start and the      *)
(* peer / relay wrappers never touch it.  A WakuNodeHandle<State> is a     *)
(* zero-sized, non-clonable value: start(self) and stop(self) take it by   *)
(* value, every other method borrows it (&self).                           *)
(*                                                                         *)
(* Threads are interleaved at the points where another thread can observe  *)
(* a difference: a call being issued, the mutex being acquired, a native   *)
(* call returning.  Native calls (the management, peers and relay          *)
(* modules) answer Ok or Err, chosen nondeterministically.                 *)
(***************************************************************************)
EXTENDS Naturals, FiniteSets, Sequences

\* ---------------------------------------------------------------- bounds
NumThreads == 2
MaxNodes == 2

Threads == 1..NumThreads
Nodes == 1..MaxNodes

\* --------------------------------------------------------------- the API
\* methods of impl<State: WakuNodeState> WakuNodeHandle<State>
AnyStateOps == {"peer_id", "listen_addresses", "add_peer"}

\* methods of impl WakuNodeHandle<Running> that borrow the handle
RunningOps ==
    {"connect_peer_with_address", "connect_peer_with_id",
     "disconnect_peer_with_id", "peer_count", "peers",
     "relay_publish_message", "relay_publish_encrypt_asymmetric",
     "relay_publish_encrypt_symmetric", "relay_enough_peers",
     "relay_subscribe", "relay_unsubscribe"}

Ops == AnyStateOps \cup RunningOps

\* the typestate of a node: no handle was ever made, Initialized, Running,
\* or given to stop
NodeState == {"Uninitialized", "Initialized", "Running", "Stopped"}

PcValues ==
    {"idle", "new_lock", "new_native", "start_native",
     "stop_lock", "stop_native", "op_native", "panicked"}

RetValues ==
    {"None", "new_Ok", "new_AlreadyInitialized", "new_Err",
     "start_Ok", "start_Err", "stop_Ok", "stop_Err",
     "op_Ok", "op_Err", "op_Rejected"}

VARIABLES
    WAKU_NODE_INITIALIZED,  \* the bool inside the static Mutex<bool>
    mutex,                  \* the thread holding the Mutex, 0 when free
    pc,                     \* pc[t]: where thread t is inside a call
    self,                   \* self[t]: the node whose handle t's call uses
    op,                     \* op[t]: the &self method t is calling
    ret,                    \* ret[t]: what t's last finished call returned
    state,                  \* state[n]: typestate of node n
    owner,                  \* owner[n]: thread holding n's handle, 0 if none
    live,                   \* live[n]: the native node exists, not yet stopped
    poisoned,               \* the Mutex is poisoned: a thread panicked holding it
    call,                   \* the pure function applied last, "none" before any
    arg,                    \* the argument it was applied to
    out                     \* what it returned

\* the state of the node lifecycle
nodeVars == <<WAKU_NODE_INITIALIZED, mutex, pc, self, op, ret, state, owner, live>>

\* the lock's poison flag and the record of the last pure call
others == <<poisoned, call, arg, out>>

vars == <<WAKU_NODE_INITIALIZED, mutex, pc, self, op, ret, state, owner, live,
          poisoned, call, arg, out>>

TypeOK ==
    /\ WAKU_NODE_INITIALIZED \in BOOLEAN
    /\ mutex \in 0..NumThreads
    /\ pc \in [Threads -> PcValues]
    /\ self \in [Threads -> 0..MaxNodes]
    /\ op \in [Threads -> Ops \cup {"none"}]
    /\ ret \in [Threads -> RetValues]
    /\ state \in [Nodes -> NodeState]
    /\ owner \in [Nodes -> 0..NumThreads]
    /\ live \in [Nodes -> BOOLEAN]
    /\ poisoned \in BOOLEAN

Init ==
    /\ WAKU_NODE_INITIALIZED = FALSE
    /\ mutex = 0
    /\ pc = [t \in Threads |-> "idle"]
    /\ self = [t \in Threads |-> 0]
    /\ op = [t \in Threads |-> "none"]
    /\ ret = [t \in Threads |-> "None"]
    /\ state = [n \in Nodes |-> "Uninitialized"]
    /\ owner = [n \in Nodes |-> 0]
    /\ live = [n \in Nodes |-> FALSE]
    /\ poisoned = FALSE
    /\ call = "none"
    /\ arg = <<>>
    /\ out = <<>>

\* ----------------------------------------------------------------- helpers
\* a thread is inside a &self method of node n's handle
Borrowed(n) == \E t \in Threads : pc[t] = "op_native" /\ self[t] = n

\* the handle of node n is a value somewhere in the process: held by a
\* thread, or moved into a start call that has not returned yet
HandleExists(n) ==
    \/ owner[n] # 0
    \/ \E t \in Threads : pc[t] = "start_native" /\ self[t] = n

\* variant of Available: every wrapper sits in the generic impl block
Available_generic(o, st) == st \in {"Initialized", "Running"}

\* which impl block offers method o for a handle tagged st
Available(o, st) ==
    IF o \in AnyStateOps THEN st \in {"Initialized", "Running"}
    ELSE st = "Running"

\* the node a successful waku_new hands out next
FreshNode == CHOOSE n \in Nodes :
    /\ state[n] = "Uninitialized"
    /\ \A m \in Nodes : state[m] = "Uninitialized" => n <= m

\* ------------------------------------------------------------------ waku_new
\* a thread calls waku_new(config) and blocks on WAKU_NODE_INITIALIZED.lock();
\* the model holds MaxNodes nodes, one is kept free for every create under way
waku_new_call(t) ==
    /\ pc[t] = "idle"
    /\ Cardinality({n \in Nodes : state[n] = "Uninitialized"})
        > Cardinality({u \in Threads : pc[u] \in {"new_lock", "new_native"}})
    /\ pc' = [pc EXCEPT ![t] = "new_lock"]
    /\ ret' = [ret EXCEPT ![t] = "None"]
    /\ op' = [op EXCEPT ![t] = "none"]
    /\ UNCHANGED <<WAKU_NODE_INITIALIZED, mutex, self, state, owner, live>>

\* variant of waku_new_lock: the flag is set without being checked first
waku_new_lock_nocheck(t) ==
    /\ pc[t] = "new_lock"
    /\ mutex = 0
    /\ WAKU_NODE_INITIALIZED' = TRUE
    /\ mutex' = t
    /\ pc' = [pc EXCEPT ![t] = "new_native"]
    /\ UNCHANGED <<self, op, ret, state, owner, live>>

\* variant of waku_new_lock: the flag is read and written without waiting
\* for the Mutex
waku_new_lock_nomutex(t) ==
    /\ pc[t] = "new_lock"
    /\ IF WAKU_NODE_INITIALIZED
       THEN /\ pc' = [pc EXCEPT ![t] = "idle"]
            /\ ret' = [ret EXCEPT ![t] = "new_AlreadyInitialized"]
            /\ UNCHANGED <<WAKU_NODE_INITIALIZED, mutex>>
       ELSE /\ WAKU_NODE_INITIALIZED' = TRUE
            /\ mutex' = t
            /\ pc' = [pc EXCEPT ![t] = "new_native"]
            /\ UNCHANGED ret
    /\ UNCHANGED <<self, op, state, owner, live>>

\* variant of waku_new_lock: the failing path resets the flag
waku_new_lock_reset(t) ==
    /\ pc[t] = "new_lock"
    /\ mutex = 0
    /\ IF WAKU_NODE_INITIALIZED
       THEN /\ pc' = [pc EXCEPT ![t] = "idle"]
            /\ ret' = [ret EXCEPT ![t] = "new_AlreadyInitialized"]
            /\ WAKU_NODE_INITIALIZED' = FALSE
            /\ UNCHANGED mutex
       ELSE /\ WAKU_NODE_INITIALIZED' = TRUE
            /\ mutex' = t
            /\ pc' = [pc EXCEPT ![t] = "new_native"]
            /\ UNCHANGED ret
    /\ UNCHANGED <<self, op, state, owner, live>>

\* variant of waku_new_lock: the MutexGuard is dropped right after the flag
\* is set, before management::waku_new is called
waku_new_lock_unlock(t) ==
    /\ pc[t] = "new_lock"
    /\ mutex = 0
    /\ IF WAKU_NODE_INITIALIZED
       THEN /\ pc' = [pc EXCEPT ![t] = "idle"]
            /\ ret' = [ret EXCEPT ![t] = "new_AlreadyInitialized"]
            /\ UNCHANGED WAKU_NODE_INITIALIZED
       ELSE /\ WAKU_NODE_INITIALIZED' = TRUE
            /\ pc' = [pc EXCEPT ![t] = "new_native"]
            /\ UNCHANGED ret
    /\ UNCHANGED <<mutex, self, op, state, owner, live>>

\* the lock is acquired; the flag is checked and, if clear, set; the early
\* return drops the MutexGuard at once
waku_new_lock(t) ==
    /\ pc[t] = "new_lock"
    /\ mutex = 0
    /\ IF WAKU_NODE_INITIALIZED
       THEN /\ pc' = [pc EXCEPT ![t] = "idle"]
            /\ ret' = [ret EXCEPT ![t] = "new_AlreadyInitialized"]
            /\ UNCHANGED <<WAKU_NODE_INITIALIZED, mutex>>
       ELSE /\ WAKU_NODE_INITIALIZED' = TRUE
            /\ mutex' = t
            /\ pc' = [pc EXCEPT ![t] = "new_native"]
            /\ UNCHANGED ret
    /\ UNCHANGED <<self, op, state, owner, live>>

\* variant of waku_new_native: a failed construction clears the flag again
waku_new_native_release(t, ok) ==
    /\ pc[t] = "new_native"
    /\ mutex' = 0
    /\ pc' = [pc EXCEPT ![t] = "idle"]
    /\ IF ok
       THEN /\ state' = [state EXCEPT ![FreshNode] = "Initialized"]
            /\ owner' = [owner EXCEPT ![FreshNode] = t]
            /\ live' = [live EXCEPT ![FreshNode] = TRUE]
            /\ ret' = [ret EXCEPT ![t] = "new_Ok"]
            /\ UNCHANGED WAKU_NODE_INITIALIZED
       ELSE /\ ret' = [ret EXCEPT ![t] = "new_Err"]
            /\ WAKU_NODE_INITIALIZED' = FALSE
            /\ UNCHANGED <<state, owner, live>>
    /\ UNCHANGED <<self, op>>

\* management::waku_new returns; its result is mapped to a handle and the
\* MutexGuard is dropped at the end of the function
waku_new_native(t, ok) ==
    /\ pc[t] = "new_native"
    /\ mutex' = 0
    /\ pc' = [pc EXCEPT ![t] = "idle"]
    /\ IF ok
       THEN /\ state' = [state EXCEPT ![FreshNode] = "Initialized"]
            /\ owner' = [owner EXCEPT ![FreshNode] = t]
            /\ live' = [live EXCEPT ![FreshNode] = TRUE]
            /\ ret' = [ret EXCEPT ![t] = "new_Ok"]
       ELSE /\ ret' = [ret EXCEPT ![t] = "new_Err"]
            /\ UNCHANGED <<state, owner, live>>
    /\ UNCHANGED <<WAKU_NODE_INITIALIZED, self, op>>

\* --------------------------------------------------------------------- start
\* variant of start_call: start takes &self, the caller keeps the handle
start_call_borrow(t, n) ==
    /\ pc[t] = "idle"
    /\ owner[n] = t
    /\ state[n] = "Initialized"
    /\ ~Borrowed(n)
    /\ self' = [self EXCEPT ![t] = n]
    /\ pc' = [pc EXCEPT ![t] = "start_native"]
    /\ ret' = [ret EXCEPT ![t] = "None"]
    /\ op' = [op EXCEPT ![t] = "none"]
    /\ UNCHANGED <<WAKU_NODE_INITIALIZED, mutex, state, owner, live>>

\* WakuNodeHandle<Initialized>::start(self): the handle is moved into the
\* call and management::waku_start is invoked, without the lock
start_call(t, n) ==
    /\ pc[t] = "idle"
    /\ owner[n] = t
    /\ state[n] = "Initialized"
    /\ ~Borrowed(n)
    /\ owner' = [owner EXCEPT ![n] = 0]
    /\ self' = [self EXCEPT ![t] = n]
    /\ pc' = [pc EXCEPT ![t] = "start_native"]
    /\ ret' = [ret EXCEPT ![t] = "None"]
    /\ op' = [op EXCEPT ![t] = "none"]
    /\ UNCHANGED <<WAKU_NODE_INITIALIZED, mutex, state, live>>

\* variant of start_native: a failed waku_start gives the claim up
start_native_release(t, ok) ==
    /\ pc[t] = "start_native"
    /\ pc' = [pc EXCEPT ![t] = "idle"]
    /\ self' = [self EXCEPT ![t] = 0]
    /\ IF ok
       THEN /\ state' = [state EXCEPT ![self[t]] = "Running"]
            /\ owner' = [owner EXCEPT ![self[t]] = t]
            /\ ret' = [ret EXCEPT ![t] = "start_Ok"]
            /\ UNCHANGED WAKU_NODE_INITIALIZED
       ELSE /\ ret' = [ret EXCEPT ![t] = "start_Err"]
            /\ WAKU_NODE_INITIALIZED' = FALSE
            /\ UNCHANGED <<state, owner>>
    /\ UNCHANGED <<mutex, op, live>>

\* waku_start returns: Ok maps to a fresh WakuNodeHandle<Running>; on Err
\* only the message is returned and the moved handle is dropped
start_native(t, ok) ==
    /\ pc[t] = "start_native"
    /\ pc' = [pc EXCEPT ![t] = "idle"]
    /\ self' = [self EXCEPT ![t] = 0]
    /\ IF ok
       THEN /\ state' = [state EXCEPT ![self[t]] = "Running"]
            /\ owner' = [owner EXCEPT ![self[t]] = t]
            /\ ret' = [ret EXCEPT ![t] = "start_Ok"]
       ELSE /\ ret' = [ret EXCEPT ![t] = "start_Err"]
            /\ UNCHANGED <<state, owner>>
    /\ UNCHANGED <<WAKU_NODE_INITIALIZED, mutex, op, live>>

\* ---------------------------------------------------------------------- stop
\* WakuNodeHandle<Initialized|Running>::stop(self): the handle is moved into
\* the call, which enters stop_node and blocks on the lock
stop_call(t, n) ==
    /\ pc[t] = "idle"
    /\ owner[n] = t
    /\ state[n] \in {"Initialized", "Running"}
    /\ ~Borrowed(n)
    /\ owner' = [owner EXCEPT ![n] = 0]
    /\ state' = [state EXCEPT ![n] = "Stopped"]
    /\ self' = [self EXCEPT ![t] = n]
    /\ pc' = [pc EXCEPT ![t] = "stop_lock"]
    /\ ret' = [ret EXCEPT ![t] = "None"]
    /\ op' = [op EXCEPT ![t] = "none"]
    /\ UNCHANGED <<WAKU_NODE_INITIALIZED, mutex, live>>

\* variant of stop_node_lock: the flag is left as it is
stop_node_lock_noclear(t) ==
    /\ pc[t] = "stop_lock"
    /\ mutex = 0
    /\ mutex' = t
    /\ pc' = [pc EXCEPT ![t] = "stop_native"]
    /\ UNCHANGED <<WAKU_NODE_INITIALIZED, self, op, ret, state, owner, live>>

\* stop_node: the lock is acquired and the flag cleared, before waku_stop
stop_node_lock(t) ==
    /\ pc[t] = "stop_lock"
    /\ mutex = 0
    /\ mutex' = t
    /\ WAKU_NODE_INITIALIZED' = FALSE
    /\ pc' = [pc EXCEPT ![t] = "stop_native"]
    /\ UNCHANGED <<self, op, ret, state, owner, live>>

\* variant of stop_node_native: a failed waku_stop keeps the claim
stop_node_native_keep(t, ok) ==
    /\ pc[t] = "stop_native"
    /\ mutex' = 0
    /\ pc' = [pc EXCEPT ![t] = "idle"]
    /\ self' = [self EXCEPT ![t] = 0]
    /\ live' = [live EXCEPT ![self[t]] = IF ok THEN FALSE ELSE @]
    /\ ret' = [ret EXCEPT ![t] = IF ok THEN "stop_Ok" ELSE "stop_Err"]
    /\ WAKU_NODE_INITIALIZED' = ~ok
    /\ UNCHANGED <<op, state, owner>>

\* stop_node: management::waku_stop returns, the result is passed on and
\* the MutexGuard is dropped
stop_node_native(t, ok) ==
    /\ pc[t] = "stop_native"
    /\ mutex' = 0
    /\ pc' = [pc EXCEPT ![t] = "idle"]
    /\ self' = [self EXCEPT ![t] = 0]
    /\ live' = [live EXCEPT ![self[t]] = IF ok THEN FALSE ELSE @]
    /\ ret' = [ret EXCEPT ![t] = IF ok THEN "stop_Ok" ELSE "stop_Err"]
    /\ UNCHANGED <<WAKU_NODE_INITIALIZED, op, state, owner>>

\* ------------------------------------------------------ the &self wrappers
\* a thread calls method o on (a shared reference to) node n's handle; a
\* method the handle's impl blocks do not offer is rejected by the type
\* checker and nothing runs
op_call(t, n, o) ==
    /\ pc[t] = "idle"
    /\ owner[n] # 0
    /\ state[n] \in {"Initialized", "Running"}
    /\ op' = [op EXCEPT ![t] = o]
    /\ IF Available(o, state[n])
       THEN /\ pc' = [pc EXCEPT ![t] = "op_native"]
            /\ self' = [self EXCEPT ![t] = n]
            /\ ret' = [ret EXCEPT ![t] = "None"]
       ELSE /\ ret' = [ret EXCEPT ![t] = "op_Rejected"]
            /\ UNCHANGED <<pc, self>>
    /\ UNCHANGED <<WAKU_NODE_INITIALIZED, mutex, state, owner, live>>

\* the native call behind the wrapper returns
op_native(t, ok) ==
    /\ pc[t] = "op_native"
    /\ pc' = [pc EXCEPT ![t] = "idle"]
    /\ self' = [self EXCEPT ![t] = 0]
    /\ op' = [op EXCEPT ![t] = "none"]
    /\ ret' = [ret EXCEPT ![t] = IF ok THEN "op_Ok" ELSE "op_Err"]
    /\ UNCHANGED <<WAKU_NODE_INITIALIZED, mutex, state, owner, live>>

\* unsafe impl Send: a handle may be moved to another thread
send_handle(t, u, n) ==
    /\ t # u
    /\ pc[t] = "idle"
    /\ owner[n] = t
    /\ ~Borrowed(n)
    /\ owner' = [owner EXCEPT ![n] = u]
    /\ UNCHANGED <<WAKU_NODE_INITIALIZED, mutex, pc, self, op, ret, state, live>>

\* ------------------------------------------------------------ specification
Next ==
    \E t \in Threads :
        \/ (waku_new_call(t)) /\ UNCHANGED others
        \/ (waku_new_lock(t)) /\ UNCHANGED others
        \/ (\E ok \in BOOLEAN : waku_new_native(t, ok)) /\ UNCHANGED others
        \/ (\E n \in Nodes : start_call(t, n)) /\ UNCHANGED others
        \/ (\E ok \in BOOLEAN : start_native(t, ok)) /\ UNCHANGED others
        \/ (\E n \in Nodes : stop_call(t, n)) /\ UNCHANGED others
        \/ (stop_node_lock(t)) /\ UNCHANGED others
        \/ (\E ok \in BOOLEAN : stop_node_native(t, ok)) /\ UNCHANGED others
        \/ (\E n \in Nodes, o \in Ops : op_call(t, n, o)) /\ UNCHANGED others
        \/ (\E ok \in BOOLEAN : op_native(t, ok)) /\ UNCHANGED others
        \/ (\E u \in Threads, n \in Nodes : send_handle(t, u, n)) /\ UNCHANGED others

Spec == Init /\ [][Next]_vars

\* ------------------------------------------------- the race of the creates
\* tests::exclusive_running, run by concurrent threads: every thread calls
\* waku_new once from the empty process; when all of them are back the
\* holder of the handle may send, start and stop it; once a stop has
\* returned and no node is claimed, a thread calls waku_new again.  The
\* native construction succeeds, waku_start and waku_stop answer either way.

\* thread t has not called anything yet
RaceFirst(t) == pc[t] = "idle" /\ ret[t] = "None"

\* every thread's first waku_new has returned
RaceOver ==
    \/ \E n \in Nodes : state[n] = "Stopped"
    \/ \A u \in Threads :
        /\ pc[u] \notin {"new_lock", "new_native"}
        /\ ~RaceFirst(u)

\* a later waku_new: the earlier node went through stop, which has returned
RaceLater ==
    /\ RaceOver
    /\ \A n \in Nodes : state[n] \notin {"Initialized", "Running"}
    /\ \A u \in Threads :
        pc[u] \notin {"new_lock", "new_native", "stop_lock", "stop_native"}

RaceNext ==
    \E t \in Threads :
        \/ ((RaceFirst(t) \/ RaceLater) /\ waku_new_call(t)) /\ UNCHANGED others
        \/ (waku_new_lock(t)) /\ UNCHANGED others
        \/ (waku_new_native(t, TRUE)) /\ UNCHANGED others
        \/ (RaceOver /\ \E n \in Nodes : start_call(t, n)) /\ UNCHANGED others
        \/ (\E ok \in BOOLEAN : start_native(t, ok)) /\ UNCHANGED others
        \/ (RaceOver /\ \E n \in Nodes : stop_call(t, n)) /\ UNCHANGED others
        \/ (stop_node_lock(t)) /\ UNCHANGED others
        \/ (\E ok \in BOOLEAN : stop_node_native(t, ok)) /\ UNCHANGED others
        \/ (RaceOver /\ \E u \in Threads, n \in Nodes : send_handle(t, u, n)) /\ UNCHANGED others

SpecRace == Init /\ [][RaceNext]_vars

\* ------------------------------------------------------------------ claims
NewResults == {"new_Ok", "new_AlreadyInitialized", "new_Err"}

LiveNodes == {n \in Nodes : state[n] \in {"Initialized", "Running"}}

\* all racing creates are back and nothing else has been called yet:
\* exactly one returned a handle, every other one the already-running error
RaceExactlyOne ==
    ( /\ \A n \in Nodes : state[n] # "Stopped"
      /\ \A u \in Threads : pc[u] = "idle" /\ ret[u] \in NewResults )
    => \E w \in Threads :
        /\ ret[w] = "new_Ok"
        /\ \E n \in Nodes : state[n] = "Initialized" /\ owner[n] # 0
        /\ Cardinality(LiveNodes) = 1
        /\ \A u \in Threads \ {w} : ret[u] = "new_AlreadyInitialized"

\* a create issued after the winner's stop passes the flag check and, the
\* native construction succeeding, returns a handle
RaceLaterSucceeds ==
    \A t \in Threads :
        /\ ( /\ pc[t] = "new_lock" /\ pc'[t] # "new_lock"
             /\ \E n \in Nodes : state[n] = "Stopped" )
           => pc'[t] = "new_native"
        /\ (pc[t] = "new_native" /\ pc'[t] = "idle")
           => /\ ret'[t] = "new_Ok"
              /\ state[FreshNode] = "Uninitialized"
              /\ state'[FreshNode] = "Initialized"
              /\ owner'[FreshNode] = t

\* C1: from the empty process, of the concurrent creates exactly one returns
\* a handle and the others fail with the already-running error; a create
\* issued after the winner's stop succeeds (native construction succeeding).
C1_ExclusiveCreate == [](RaceExactlyOne) /\ [][RaceLaterSucceeds]_vars

\* the loser failed, the winner stopped its node, and the next create made
\* a second node
C1_Witness ==
    /\ state[1] = "Stopped"
    /\ state[2] = "Initialized"
    /\ \E t \in Threads : ret[t] = "new_Ok" /\ owner[2] = t
    /\ \E u \in Threads : ret[u] = "new_AlreadyInitialized"

\* C2: at most one node is Initialized or Running, at most one handle
\* exists, and no create gets past the flag check while such a node exists.
C2_AtMostOneLiveNode ==
    /\ Cardinality(LiveNodes) <= 1
    /\ Cardinality({n \in Nodes : HandleExists(n)}) <= 1
    /\ \A t \in Threads : pc[t] = "new_native" => LiveNodes = {}

\* a create was refused while another thread held a Running handle
C2_Witness ==
    \E t \in Threads, n \in Nodes :
        /\ pc[t] = "idle" /\ ret[t] = "new_AlreadyInitialized"
        /\ state[n] = "Running" /\ owner[n] # 0 /\ owner[n] # t

\* C3: a create that won the flag and whose native construction failed
\* returns with the flag clear.
C3_FailedCreateReleases ==
    [][\A t \in Threads :
        (pc[t] = "new_native" /\ pc'[t] = "idle" /\ ret'[t] = "new_Err")
        => ~WAKU_NODE_INITIALIZED']_vars

\* C4: after a failed start the flag is still held and the node's handle is
\* still in a thread's hands, so that stop can be called on it.
C4_StopAfterFailedStart ==
    [][\A t \in Threads :
        (pc[t] = "start_native" /\ pc'[t] = "idle" /\ ret'[t] = "start_Err")
        => /\ WAKU_NODE_INITIALIZED'
           /\ owner'[self[t]] # 0]_vars

\* the step in which stop returns to its caller
StopReturns(t) == pc[t] = "stop_native" /\ pc'[t] = "idle"

\* C5: when stop returns, with Ok or with the native error, the flag is
\* clear and the lock free; Err is returned exactly when the native stop
\* failed (the native node is still there).
C5_StopAlwaysReleases ==
    [][\A t \in Threads :
        StopReturns(t)
        => /\ ~WAKU_NODE_INITIALIZED'
           /\ mutex' = 0
           /\ ret'[t] \in {"stop_Ok", "stop_Err"}
           /\ (ret'[t] = "stop_Err") <=> live'[self[t]]]_vars

\* a stop failed natively, and afterwards a create made the next node
C5_Witness ==
    \E t \in Threads, u \in Threads :
        /\ pc[t] = "idle" /\ ret[t] = "stop_Err"
        /\ state[1] = "Stopped" /\ live[1]
        /\ ret[u] = "new_Ok" /\ state[2] = "Initialized" /\ owner[2] = u

\* the stop call on node n has returned
StopReturned(n) ==
    /\ state[n] = "Stopped"
    /\ \A u \in Threads : self[u] # n

\* C6 as stated: the native construction is never running or about to run
\* while an earlier native node has not been stopped successfully.
C6_NeverDoubleInitialized ==
    \A t \in Threads : pc[t] = "new_native" => \A n \in Nodes : ~live[n]

\* C6 as amended: the native construction never runs while an earlier native
\* node has not been through its stop call (native stop returned, Ok or
\* Err); at most one native node is in that position at any time.
C6_ExclusiveUntilStopReturns ==
    /\ \A t \in Threads :
        pc[t] = "new_native" => \A n \in Nodes : live[n] => StopReturned(n)
    /\ Cardinality({n \in Nodes : live[n] /\ ~StopReturned(n)}) <= 1

\* a native construction in flight while the first native node, whose stop
\* failed, still exists
C6_Witness ==
    \E t \in Threads :
        /\ pc[t] = "new_native"
        /\ live[1] /\ StopReturned(1)

\* C7: a create that finds the flag set returns the already-running error
\* straight from the check, without entering the native call, and changes
\* neither the flag nor any node.
C7_RefusedCreateTouchesNothing ==
    [][\A t \in Threads :
        (pc[t] = "new_lock" /\ pc'[t] # "new_lock" /\ WAKU_NODE_INITIALIZED)
        => /\ pc'[t] = "idle"
           /\ ret'[t] = "new_AlreadyInitialized"
           /\ UNCHANGED <<WAKU_NODE_INITIALIZED, mutex, state, owner, live>>]_vars

\* a create was refused while the flag's holder is Initialized
C7_Witness ==
    \E t \in Threads, n \in Nodes :
        /\ pc[t] = "idle" /\ ret[t] = "new_AlreadyInitialized"
        /\ WAKU_NODE_INITIALIZED
        /\ state[n] = "Initialized" /\ owner[n] # 0

\* C8 as stated: none of the listed methods reaches its native call on a
\* handle that is Initialized.
C8_RunningOnly ==
    \A t \in Threads :
        (pc[t] = "op_native" /\ op[t] \in Ops) => state[self[t]] = "Running"

\* C8 as amended: the methods of impl WakuNodeHandle<Running> never reach
\* their native call on an Initialized handle and an attempt is rejected;
\* peer_id, listen_addresses and add_peer are offered in every state.
C8_RunningImplOnly ==
    \A t \in Threads :
        /\ (pc[t] = "op_native" /\ op[t] \in RunningOps)
           => state[self[t]] = "Running"
        /\ ret[t] = "op_Rejected" => (pc[t] = "idle" /\ op[t] \in RunningOps)

\* relay_subscribe was tried on an Initialized handle and rejected
C8_Witness ==
    \E t \in Threads, n \in Nodes :
        /\ ret[t] = "op_Rejected" /\ op[t] = "relay_subscribe"
        /\ state[n] = "Initialized" /\ owner[n] # 0

\* node n changes typestate only along the four transitions, each in the
\* step of its operation
C9_Transition(n) ==
    state'[n] # state[n] =>
        \/ /\ state[n] = "Uninitialized" /\ state'[n] = "Initialized"
           /\ \E t \in Threads :
                /\ pc[t] = "new_native" /\ pc'[t] = "idle"
                /\ ret'[t] = "new_Ok" /\ owner'[n] = t
        \/ /\ state[n] = "Initialized" /\ state'[n] = "Running"
           /\ \E t \in Threads :
                /\ pc[t] = "start_native" /\ self[t] = n /\ pc'[t] = "idle"
                /\ ret'[t] = "start_Ok" /\ owner'[n] = t
        \/ /\ state[n] \in {"Initialized", "Running"} /\ state'[n] = "Stopped"
           /\ \E t \in Threads :
                /\ pc[t] = "idle" /\ pc'[t] = "stop_lock" /\ self'[t] = n

\* start and stop take the handle away from the caller, and a handle comes
\* into a thread's hands only from create, from a successful start, or from
\* another thread
C9_Consumed(n) ==
    /\ \A t \in Threads :
        (pc[t] = "idle" /\ pc'[t] \in {"start_native", "stop_lock"}
            /\ self'[t] = n)
        => (owner[n] = t /\ owner'[n] = 0)
    /\ (owner[n] = 0 /\ owner'[n] # 0) =>
        \E t \in Threads :
            /\ owner'[n] = t
            /\ pc[t] \in {"new_native", "start_native"}
            /\ pc'[t] = "idle"

\* a create goes on to construct a node only if it found the flag clear
C9_CreateNeedsClear ==
    \A t \in Threads :
        (pc[t] = "new_lock" /\ pc'[t] = "new_native") => ~WAKU_NODE_INITIALIZED

\* nobody holds the handle of a stopped node or of a node being started
C9_NoReuse ==
    /\ \A n \in Nodes : state[n] \in {"Uninitialized", "Stopped"} => owner[n] = 0
    /\ \A t \in Threads : pc[t] = "start_native" => owner[self[t]] = 0

\* C9: a node moves only Uninitialized-create->Initialized,
\* Initialized-start->Running, Initialized/Running-stop->Stopped; start and
\* stop consume the handle, Stopped is final, and a node becomes Initialized
\* only through a create that found the flag clear.
C9_StateMachine ==
    /\ [](C9_NoReuse)
    /\ [][/\ \A n \in Nodes : C9_Transition(n) /\ C9_Consumed(n)
          /\ C9_CreateNeedsClear]_vars

\* a node was created, started and stopped, and the next one is running
C9_Witness == state[1] = "Stopped" /\ state[2] = "Running" /\ owner[2] # 0

\* while a handle tagged Initialized or Running exists the flag is set
C10_HandleImpliesFlag ==
    \A n \in Nodes :
        (HandleExists(n) /\ state[n] \in {"Initialized", "Running"})
        => WAKU_NODE_INITIALIZED

\* the flag falls only in stop_node, run for a node that was given to stop
C10_ClearedOnlyByStop ==
    (WAKU_NODE_INITIALIZED /\ ~WAKU_NODE_INITIALIZED') =>
        \E t \in Threads :
            /\ pc[t] = "stop_lock" /\ pc'[t] = "stop_native"
            /\ state[self[t]] = "Stopped"

\* C10: whenever a handle in state Initialized or Running exists the flag is
\* true, and the flag goes from true to false only inside a stop.
C10_FlagTracksHandles ==
    [](C10_HandleImpliesFlag) /\ [][C10_ClearedOnlyByStop]_vars

\* a stop has just cleared the flag for the node whose handle it was given
C10_Witness ==
    \E t \in Threads :
        /\ pc[t] = "stop_native" /\ ~WAKU_NODE_INITIALIZED
        /\ state[self[t]] = "Stopped" /\ live[self[t]]

\* a step of start or of a &self wrapper, taken by thread t
StartOrOpStep(t) ==
    \/ pc[t] = "idle" /\ pc'[t] \in {"start_native", "op_native"}
    \/ pc[t] \in {"start_native", "op_native"} /\ pc'[t] = "idle"
    \/ /\ pc[t] = "idle" /\ pc'[t] = "idle" /\ ret'[t] = "op_Rejected"
       /\ <<ret[t], op[t]>> # <<ret'[t], op'[t]>>

\* C18: start and the peer / relay / query wrappers leave the flag as it is,
\* whatever the native call answers; the flag is written only by create,
\* from false to true, and by stop, to false.
C18_OnlyCreateAndStopWrite ==
    [][/\ \A t \in Threads : StartOrOpStep(t) => UNCHANGED WAKU_NODE_INITIALIZED
       /\ (WAKU_NODE_INITIALIZED' # WAKU_NODE_INITIALIZED) =>
            \E t \in Threads :
                \/ /\ pc[t] = "new_lock" /\ pc'[t] = "new_native"
                   /\ ~WAKU_NODE_INITIALIZED /\ WAKU_NODE_INITIALIZED'
                \/ /\ pc[t] = "stop_lock" /\ pc'[t] = "stop_native"
                   /\ ~WAKU_NODE_INITIALIZED']_vars

\* a start failed and a relay call failed, the flag is still set
C18_Witness ==
    \E t \in Threads, u \in Threads :
        /\ ret[t] = "start_Err" /\ pc[t] = "idle"
        /\ pc[u] = "idle" /\ ret[u] \in {"op_Ok", "op_Err"}
        /\ WAKU_NODE_INITIALIZED

\* the threads inside management::waku_new or management::waku_stop
InNativeNewOrStop == {t \in Threads : pc[t] \in {"new_native", "stop_native"}}

\* C19: a thread is inside the native construct or the native stop call only
\* while it holds the lock, so at most one such call is in flight.
C19_NativeUnderLock ==
    /\ \A t \in InNativeNewOrStop : mutex = t
    /\ Cardinality(InNativeNewOrStop) <= 1

\* a native stop is in flight while another thread waits in create
C19_Witness ==
    \E t \in Threads, u \in Threads :
        /\ pc[t] = "stop_native" /\ mutex = t
        /\ pc[u] = "new_lock"

\* C20: whenever the flag is set there is a handle to call stop on, or a
\* create or stop under way that will hand one out or clear the flag.
C20_NeverWedged ==
    WAKU_NODE_INITIALIZED =>
        \/ \E n \in Nodes : HandleExists(n)
        \/ \E t \in Threads : pc[t] \in {"new_native", "stop_lock"}

\* ------------------------------------------------------- a poisoned Mutex
\* management::waku_new or management::waku_stop panics (a native reply it
\* cannot decode) while the caller holds the MutexGuard: the thread unwinds,
\* the guard is dropped and the Mutex is left poisoned
native_panics(t) ==
    /\ pc[t] \in {"new_native", "stop_native"}
    /\ mutex = t
    /\ pc' = [pc EXCEPT ![t] = "panicked"]
    /\ mutex' = 0
    /\ poisoned' = TRUE
    /\ UNCHANGED <<WAKU_NODE_INITIALIZED, self, op, ret, state, owner, live>>

\* waku_new: lock() on the poisoned Mutex is Err(PoisonError) and
\* .expect("Access to the mutex at some point") panics
waku_new_lock_poisoned(t) ==
    /\ pc[t] = "new_lock"
    /\ mutex = 0
    /\ poisoned
    /\ pc' = [pc EXCEPT ![t] = "panicked"]
    /\ UNCHANGED <<WAKU_NODE_INITIALIZED, mutex, self, op, ret, state, owner,
                   live, poisoned>>

\* stop_node has the same lock().expect(..); it is never reached with the
\* Mutex poisoned, because a thread panics under the lock only when no
\* handle is left (PoisonedStopUnreachable below), so it has no action here
PoisonNext ==
    \E t \in Threads :
        \/ waku_new_call(t) /\ UNCHANGED others
        \/ ~poisoned /\ waku_new_lock(t) /\ UNCHANGED others
        \/ waku_new_lock_poisoned(t) /\ UNCHANGED <<call, arg, out>>
        \/ (\E ok \in BOOLEAN : waku_new_native(t, ok)) /\ UNCHANGED others
        \/ (\E n \in Nodes : start_call(t, n)) /\ UNCHANGED others
        \/ (\E ok \in BOOLEAN : start_native(t, ok)) /\ UNCHANGED others
        \/ (\E n \in Nodes : stop_call(t, n)) /\ UNCHANGED others
        \/ ~poisoned /\ stop_node_lock(t) /\ UNCHANGED others
        \/ (\E ok \in BOOLEAN : stop_node_native(t, ok)) /\ UNCHANGED others
        \/ native_panics(t) /\ UNCHANGED <<call, arg, out>>
        \/ (\E u \in Threads, n \in Nodes : send_handle(t, u, n)) /\ UNCHANGED others

SpecPoison == Init /\ [][PoisonNext]_vars

\* C15: a create or stop that finds the lock poisoned returns to its caller
\* with an error value; it does not panic.
C15_PoisonIsReturned ==
    [][\A t \in Threads :
        (poisoned /\ pc[t] \in {"new_lock", "stop_lock"} /\ pc'[t] # pc[t])
        => /\ pc'[t] = "idle"
           /\ ret'[t] \notin {"None", "new_Ok", "stop_Ok"}]_vars

\* once the Mutex is poisoned no handle exists and no stop is waiting
PoisonedStopUnreachable ==
    poisoned =>
        /\ \A n \in Nodes : ~HandleExists(n)
        /\ \A t \in Threads : pc[t] # "stop_lock"

\* ==================================================================
\* general/mod.rs: Encoding, topics and the response adapter.
\* A Rust string is a sequence of one-character strings, so that
\* parsing and formatting are computed character by character.
\* ==================================================================

\* The result of a fallible function: Ok(val) or Err(err).
Ok(v) == [ok |-> TRUE, val |-> v]

Err(e) == [ok |-> FALSE, err |-> e]

Uppers == <<"P", "R", "O", "T", "L", "F", "C", "X">>

Lowers == <<"p", "r", "o", "t", "l", "f", "c", "x">>

\* char::to_lowercase on the alphabet of the model
to_lowercase_char(c) ==
    IF \E i \in 1..Len(Uppers) : Uppers[i] = c
    THEN Lowers[CHOOSE i \in 1..Len(Uppers) : Uppers[i] = c]
    ELSE c

to_uppercase_char(c) ==
    IF \E i \in 1..Len(Lowers) : Lowers[i] = c
    THEN Uppers[CHOOSE i \in 1..Len(Lowers) : Lowers[i] = c]
    ELSE c

\* str::to_lowercase
to_lowercase(s) == [i \in 1..Len(s) |-> to_lowercase_char(s[i])]

Encoding == {"Proto", "Rlp", "Rfc26"}

proto == <<"p", "r", "o", "t", "o">>

rlp == <<"r", "l", "p">>

rfc26 == <<"r", "f", "c", "2", "6">>

\* impl Display for Encoding
Encoding_fmt(e) ==
    CASE e = "Proto" -> proto
      [] e = "Rlp"   -> rlp
      [] e = "Rfc26" -> rfc26

\* impl FromStr for Encoding, without the to_lowercase
Encoding_from_str_exact(s) ==
    CASE s = proto -> Ok("Proto")
      [] s = rlp   -> Ok("Rlp")
      [] s = rfc26 -> Ok("Rfc26")
      [] OTHER     -> Err(<<"Unrecognized encoding: ", s>>)

\* impl FromStr for Encoding
Encoding_from_str(s) ==
    LET encoding == to_lowercase(s) IN
    CASE encoding = proto -> Ok("Proto")
      [] encoding = rlp   -> Ok("Rlp")
      [] encoding = rfc26 -> Ok("Rfc26")
      [] OTHER            -> Err(<<"Unrecognized encoding: ", encoding>>)

\* every spelling of w in upper and lower case
CaseVariants(w) ==
    {s \in [1..Len(w) -> {w[i] : i \in 1..Len(w)}
                         \cup {to_uppercase_char(w[i]) : i \in 1..Len(w)}] :
        \A i \in 1..Len(w) : s[i] \in {w[i], to_uppercase_char(w[i])}}

\* tokens that are no encoding in any case
NonTokens ==
    {<<>>, <<"p">>, <<"o">>, <<"P">>, <<"6">>, <<"x">>,
     <<"p", "r", "o", "t">>, <<"p", "r", "o", "t", "o", "o">>,
     <<"r", "l">>, <<"R", "L", "P", "X">>, <<"r", "f", "c", "2">>,
     <<"r", "f", "c", "6", "2">>, <<"p", "r", "o", "t", "o", "/">>,
     <<"x", "p", "r", "o", "t", "o">>}

EncodingTokens ==
    CaseVariants(proto) \cup CaseVariants(rlp) \cup CaseVariants(rfc26)
        \cup NonTokens

\* Encoding::from_str(s) called
parse_encoding(s) ==
    /\ call' = "Encoding::from_str"
    /\ arg' = s
    /\ out' = Encoding_from_str(s)
    /\ UNCHANGED <<nodeVars, poisoned>>

\* e.to_string() called on an Encoding
format_encoding(e) ==
    /\ call' = "Encoding::to_string"
    /\ arg' = e
    /\ out' = Encoding_fmt(e)
    /\ UNCHANGED <<nodeVars, poisoned>>

\* ------------------------------------------------------------------ scanf!
\* the characters of the regular expression class \w that the model uses
WordChars ==
    {Lowers[i] : i \in 1..Len(Lowers)} \cup {Uppers[i] : i \in 1..Len(Uppers)}
        \cup {"a", "b", "h", "k", "m", "u", "w", "y", "d", "e", "v",
              "0", "1", "2", "3", "4", "5", "6", "7", "8", "9"}

Digits == <<"0", "1", "2", "3", "4", "5", "6", "7", "8", "9">>

IsDigit(c) == \E i \in 1..Len(Digits) : Digits[i] = c

DigitValue(c) == (CHOOSE i \in 1..Len(Digits) : Digits[i] = c) - 1

\* usize::to_string
RECURSIVE usize_fmt(_)
usize_fmt(n) ==
    IF n < Len(Digits) THEN <<Digits[n + 1]>>
    ELSE usize_fmt(n \div Len(Digits)) \o <<Digits[(n % Len(Digits)) + 1]>>

\* usize::from_str on a string of digits
RECURSIVE usize_from_str(_)
usize_from_str(s) ==
    IF Len(s) = 1 THEN DigitValue(s[1])
    ELSE usize_from_str(SubSeq(s, 1, Len(s) - 1)) * Len(Digits)
             + DigitValue(s[Len(s)])

\* RegexRepresentation for Encoding: REGEX = r"\w", one word character
Encoding_REGEX(s) == Len(s) = 1 /\ s[1] \in WordChars

\* ---------------------------------------------------------- WakuPubSubTopic
\* the literal text of the scanf! format in WakuPubSubTopic::from_str
PubSubScanPrefix == <<"/", "w", "a", "k", "u", "/", "v", "2", "/">>

\* the literal text of the write! format in WakuPubSubTopic::fmt
PubSubFmtPrefix == <<"/", "w", "a", "k", "u", "/", "2", "/">>

\* scanf!(s, "/waku/v2/{}/{}", String, Encoding): the whole of s matches
\* ^/waku/v2/(.+?)/(\w)$ and the second capture parses as an Encoding
scanf_pubsub(s) ==
    LET p == Len(PubSubScanPrefix)
        n == Len(s) IN
    IF /\ n >= p + 3
       /\ SubSeq(s, 1, p) = PubSubScanPrefix
       /\ s[n - 1] = "/"
       /\ Encoding_REGEX(<<s[n]>>)
       /\ Encoding_from_str(<<s[n]>>).ok
    THEN Ok([topic_name |-> SubSeq(s, p + 1, n - 2),
             encoding |-> Encoding_from_str(<<s[n]>>).val])
    ELSE Err("scanf")

\* impl FromStr for WakuPubSubTopic
WakuPubSubTopic_from_str(s) ==
    IF scanf_pubsub(s).ok
    THEN Ok(scanf_pubsub(s).val)
    ELSE Err(<<"Wrong pub-sub topic format. Got: ", s>>)

\* impl Display for WakuPubSubTopic
WakuPubSubTopic_fmt(t) ==
    PubSubFmtPrefix \o t.topic_name \o <<"/">> \o Encoding_fmt(t.encoding)

DefaultWaku == <<"d", "e", "f", "a", "u", "l", "t", "-", "w", "a", "k", "u">>

PubSubNames == {DefaultWaku, <<"a">>, <<"c", "2">>}

PubSubTopics == [topic_name : PubSubNames, encoding : Encoding]

\* every string that formatting a WakuPubSubTopic produces
ValidPubSubStrings == {WakuPubSubTopic_fmt(t) : t \in PubSubTopics}

Waku2DefaultProto == PubSubFmtPrefix \o DefaultWaku \o <<"/">> \o proto

Waku1DefaultProto ==
    <<"/", "w", "a", "k", "u", "/", "1", "/">> \o DefaultWaku \o <<"/">> \o proto

\* strings outside the /waku/2/ form
OtherPubSubStrings ==
    {Waku1DefaultProto,
     PubSubScanPrefix \o DefaultWaku \o <<"/">> \o proto,
     PubSubScanPrefix \o DefaultWaku \o <<"/">> \o <<"p">>,
     PubSubScanPrefix \o <<"/">> \o <<"p">>,
     PubSubFmtPrefix \o DefaultWaku \o <<"/">> \o <<"p">>,
     PubSubFmtPrefix \o DefaultWaku,
     PubSubFmtPrefix,
     DefaultWaku,
     <<>>}

PubSubStrings == ValidPubSubStrings \cup OtherPubSubStrings

\* WakuPubSubTopic::from_str(s) called
parse_pubsub_topic(s) ==
    /\ call' = "WakuPubSubTopic::from_str"
    /\ arg' = s
    /\ out' = WakuPubSubTopic_from_str(s)
    /\ UNCHANGED <<nodeVars, poisoned>>

\* t.to_string() called on a WakuPubSubTopic
format_pubsub_topic(t) ==
    /\ call' = "WakuPubSubTopic::to_string"
    /\ arg' = t
    /\ out' = WakuPubSubTopic_fmt(t)
    /\ UNCHANGED <<nodeVars, poisoned>>

\* --------------------------------------------------------- WakuContentTopic
\* the largest version number of the content topics that are tried
MaxVersion == 11

\* the positions <<i, j>> of the second and third "/" under which s matches
\* ^/(.+?)/(\d+)/(.+?)/(\w)$
ContentSplits(s) ==
    LET n == Len(s) IN
    {ij \in (1..n) \X (1..n) :
        /\ s[1] = "/"
        /\ ij[1] > 2
        /\ s[ij[1]] = "/"
        /\ ij[2] > ij[1] + 1
        /\ \A k \in (ij[1] + 1)..(ij[2] - 1) : IsDigit(s[k])
        /\ s[ij[2]] = "/"
        /\ n - 2 >= ij[2] + 1
        /\ s[n - 1] = "/"
        /\ Encoding_REGEX(<<s[n]>>)}

\* scanf!(s, "/{}/{}/{}/{}", String, usize, String, Encoding): the lazy
\* captures take the leftmost split, then every capture is parsed
scanf_content(s) ==
    LET n == Len(s)
        splits == ContentSplits(s) IN
    IF splits = {} THEN Err("scanf")
    ELSE LET ij == CHOOSE x \in splits :
                       \A y \in splits : x[1] < y[1]
                                         \/ (x[1] = y[1] /\ x[2] <= y[2])
             encoding == Encoding_from_str(<<s[n]>>) IN
         IF encoding.ok
         THEN Ok([application_name |-> SubSeq(s, 2, ij[1] - 1),
                  version |-> usize_from_str(SubSeq(s, ij[1] + 1, ij[2] - 1)),
                  content_topic_name |-> SubSeq(s, ij[2] + 1, n - 2),
                  encoding |-> encoding.val])
         ELSE Err("scanf")

\* impl FromStr for WakuContentTopic
WakuContentTopic_from_str(s) ==
    IF scanf_content(s).ok
    THEN Ok(scanf_content(s).val)
    ELSE Err(<<"Wrong pub-sub topic format. Got: ", s>>)

\* impl Display for WakuContentTopic
WakuContentTopic_fmt(t) ==
    <<"/">> \o t.application_name \o <<"/">> \o usize_fmt(t.version)
        \o <<"/">> \o t.content_topic_name \o <<"/">> \o Encoding_fmt(t.encoding)

myapp == <<"m", "y", "a", "p", "p">>

chat == <<"c", "h", "a", "t">>

ApplicationNames == {myapp, <<"a">>}

ContentTopicNames == {chat, <<"c", "2">>}

ContentTopics ==
    [application_name : ApplicationNames, version : 0..MaxVersion,
     content_topic_name : ContentTopicNames, encoding : Encoding]

\* every string of the content topic grammar over the names of the model
ValidContentStrings == {WakuContentTopic_fmt(t) : t \in ContentTopics}

MyappChatProto ==
    WakuContentTopic_fmt([application_name |-> myapp, version |-> 1,
                          content_topic_name |-> chat, encoding |-> "Proto"])

\* strings outside the grammar: a one-character encoding, a version that
\* is no number, missing segments
OtherContentStrings ==
    {<<"/">> \o myapp \o <<"/", "1", "/">> \o chat \o <<"/", "p">>,
     <<"/">> \o myapp \o <<"/", "1", "0", "/">> \o chat \o <<"/", "x">>,
     <<"/">> \o myapp \o <<"/", "x", "/">> \o chat \o <<"/">> \o proto,
     <<"/">> \o myapp \o <<"/", "1", "/">> \o chat,
     <<"/">> \o myapp \o <<"/", "/">> \o chat \o <<"/">> \o rlp,
     myapp,
     <<>>}

ContentStrings == ValidContentStrings \cup OtherContentStrings

\* WakuContentTopic::from_str(s) called
parse_content_topic(s) ==
    /\ call' = "WakuContentTopic::from_str"
    /\ arg' = s
    /\ out' = WakuContentTopic_from_str(s)
    /\ UNCHANGED <<nodeVars, poisoned>>

\* t.to_string() called on a WakuContentTopic
format_content_topic(t) ==
    /\ call' = "WakuContentTopic::to_string"
    /\ arg' = t
    /\ out' = WakuContentTopic_fmt(t)
    /\ UNCHANGED <<nodeVars, poisoned>>

\* ------------------------------------------------------------- JsonResponse
\* values a native call answers with, and error messages; the empty string
\* is both
Payloads == {"", "16Uiu2HAm", "3"}

Messages == {"", "peer not found", "context deadline exceeded"}

\* enum JsonResponse<T> { Result(T), Error(String) }
JsonResponse == [tag : {"result"}, val : Payloads] \cup
                [tag : {"error"}, val : Messages]

\* variant of Result_from: the failure carries a description of its own
Result_from_reworded(response) ==
    CASE response.tag = "result" -> Ok(response.val)
      [] response.tag = "error"  -> Err("native call failed")

\* impl From<JsonResponse<T>> for Result<T>
Result_from(response) ==
    CASE response.tag = "result" -> Ok(response.val)
      [] response.tag = "error"  -> Err(response.val)

\* response.into() called on a decoded JsonResponse
from_json_response(response) ==
    /\ call' = "Result::from"
    /\ arg' = response
    /\ out' = Result_from(response)
    /\ UNCHANGED <<nodeVars, poisoned>>

\* ---------------------------------------------------------- connect timeout
\* A number of milliseconds is the pair hi * Radix + lo, since a timeout
\* may exceed the 32 bits of a model integer.
Radix == 65536

Ms(hi, lo) == [hi |-> hi, lo |-> lo]

MsLeq(a, b) == a.hi < b.hi \/ (a.hi = b.hi /\ a.lo <= b.lo)

\* i32::MAX = 2^31 - 1
i32_MAX == Ms((Radix \div 2) - 1, Radix - 1)

ZeroMs == Ms(0, 0)

\* 5,000,000,000 = 76293 * Radix + 61952
FiveBillionMs == Ms(76293, 61952)

\* the timeouts a caller passes, as milliseconds
Timeouts ==
    {ZeroMs, Ms(0, 1), Ms(0, Radix - 1), Ms(1, 0),
     Ms(i32_MAX.hi, i32_MAX.lo - 1), i32_MAX, Ms(i32_MAX.hi + 1, 0),
     Ms(Radix - 1, Radix - 1), Ms(Radix, 0), FiveBillionMs}

\* variant of timeout_as_i32: the cast `as i32`, which keeps the low bits
timeout_as_i32_cast(timeout) == Ms(timeout.hi % (Radix \div 2), timeout.lo)

\* the milliseconds peers::waku_connect_peer_with_address and
\* peers::waku_connect_peer_with_id hand to the native call
timeout_as_i32(timeout) ==
    IF MsLeq(timeout, i32_MAX) THEN timeout ELSE i32_MAX

\* WakuNodeHandle<Running>::connect_peer_with_address(&self, address, Some(timeout))
connect_peer_with_address(n, timeout) ==
    /\ owner[n] # 0
    /\ Available("connect_peer_with_address", state[n])
    /\ call' = "connect_peer_with_address"
    /\ arg' = timeout
    /\ out' = timeout_as_i32(timeout)
    /\ UNCHANGED <<nodeVars, poisoned>>

\* WakuNodeHandle<Running>::connect_peer_with_id(&self, peer_id, Some(timeout))
connect_peer_with_id(n, timeout) ==
    /\ owner[n] # 0
    /\ Available("connect_peer_with_id", state[n])
    /\ call' = "connect_peer_with_id"
    /\ arg' = timeout
    /\ out' = timeout_as_i32(timeout)
    /\ UNCHANGED <<nodeVars, poisoned>>

\* ------------------------------------- specification of the pure functions
\* a process in which thread 1 has created and started node 1
InitValues ==
    /\ WAKU_NODE_INITIALIZED = TRUE
    /\ mutex = 0
    /\ pc = [t \in Threads |-> "idle"]
    /\ self = [t \in Threads |-> 0]
    /\ op = [t \in Threads |-> "none"]
    /\ ret = [t \in Threads |-> IF t = 1 THEN "start_Ok" ELSE "None"]
    /\ state = [n \in Nodes |-> IF n = 1 THEN "Running" ELSE "Uninitialized"]
    /\ owner = [n \in Nodes |-> IF n = 1 THEN 1 ELSE 0]
    /\ live = [n \in Nodes |-> n = 1]
    /\ poisoned = FALSE
    /\ call = "none"
    /\ arg = <<>>
    /\ out = <<>>

ValuesNext ==
    \/ \E s \in EncodingTokens : parse_encoding(s)
    \/ \E e \in Encoding : format_encoding(e)
    \/ \E s \in PubSubStrings : parse_pubsub_topic(s)
    \/ \E t \in PubSubTopics : format_pubsub_topic(t)
    \/ \E s \in ContentStrings : parse_content_topic(s)
    \/ \E t \in ContentTopics : format_content_topic(t)
    \/ \E response \in JsonResponse : from_json_response(response)
    \/ \E n \in Nodes, timeout \in Timeouts : connect_peer_with_address(n, timeout)
    \/ \E n \in Nodes, timeout \in Timeouts : connect_peer_with_id(n, timeout)

SpecValues == InitValues /\ [][ValuesNext]_vars

\* the state SpecValues starts in is a state of Spec
InitValuesUnreached ==
    ~(/\ WAKU_NODE_INITIALIZED /\ mutex = 0 /\ \A t \in Threads : pc[t] = "idle"
      /\ state[1] = "Running" /\ owner[1] = 1 /\ live[1] /\ ret[1] = "start_Ok"
      /\ \A n \in Nodes \ {1} : state[n] = "Uninitialized" /\ owner[n] = 0 /\ ~live[n]
      /\ \A t \in Threads \ {1} : ret[t] = "None")

\* ------------------------------------------------------------------- C11
\* C11: for every string s that formatting a WakuPubSubTopic produces
\* (/waku/2/{topic-name}/{encoding}), WakuPubSubTopic::from_str(s) is Ok
\* and formatting the parsed value gives s again.
C11_PubSubRoundTrip ==
    (call = "WakuPubSubTopic::from_str" /\ arg \in ValidPubSubStrings)
        => (out.ok /\ WakuPubSubTopic_fmt(out.val) = arg)

\* ------------------------------------------------------------------- C12
\* C12: WakuPubSubTopic::from_str accepts the prefix /waku/2/ and no other
\* version literal: "/waku/2/default-waku/proto" is Ok, and
\* "/waku/1/default-waku/proto" is Err with the malformed-topic message.
C12_PrefixWaku2 ==
    call = "WakuPubSubTopic::from_str" =>
        /\ arg = Waku2DefaultProto => out.ok
        /\ arg = Waku1DefaultProto =>
               (~out.ok /\ out.err = <<"Wrong pub-sub topic format. Got: ", arg>>)

\* ------------------------------------------------------------------- C13
\* C13: for every string s of the content topic grammar
\* /{application_name}/{version}/{content_topic_name}/{encoding},
\* WakuContentTopic::from_str(s) is Ok with the four segments as its fields
\* and formatting the parsed value gives s again; "/myapp/1/chat/proto"
\* gives myapp, 1, chat, Proto.
C13_ContentRoundTrip ==
    (call = "WakuContentTopic::from_str" /\ arg \in ValidContentStrings)
        => /\ out.ok
           /\ out.val \in ContentTopics
           /\ WakuContentTopic_fmt(out.val) = arg
           /\ arg = MyappChatProto =>
                  out.val = [application_name |-> myapp, version |-> 1,
                             content_topic_name |-> chat, encoding |-> "Proto"]

\* ------------------------------------------------------------------- C14
\* C14: Encoding::from_str ignores case and Encoding's Display writes lower
\* case: a token whose lower-case form is proto, rlp or rfc26 parses, and
\* formatting the parsed value gives the lower-case form of the token;
\* "PROTO" formats back as "proto"; every other token is Err.
C14_EncodingCaseInsensitive ==
    call = "Encoding::from_str" =>
        /\ IF to_lowercase(arg) \in {proto, rlp, rfc26}
           THEN out.ok /\ Encoding_fmt(out.val) = to_lowercase(arg)
           ELSE ~out.ok
        /\ arg = <<"P", "R", "O", "T", "O">> =>
               (out.ok /\ Encoding_fmt(out.val) = <<"p", "r", "o", "t", "o">>)

C14_Witness ==
    /\ call = "Encoding::from_str"
    /\ arg = <<"P", "R", "O", "T", "O">>
    /\ out = Ok("Proto")

\* ------------------------------------------------------------------- C16
\* C16: the adapter turns the native response {result: t} into Ok(t) and
\* {error: m} into Err(m) with m unchanged; an error never becomes a
\* success and a success never becomes an error.
C16_AdapterVerbatim ==
    call = "Result::from" =>
        /\ arg.tag = "result" => (out.ok /\ out.val = arg.val)
        /\ arg.tag = "error" => (~out.ok /\ out.err = arg.val)

C16_Witness ==
    /\ call = "Result::from"
    /\ arg = [tag |-> "error", val |-> "peer not found"]
    /\ out = Err("peer not found")

\* ------------------------------------------------------------------- C17
\* C17: the timeout handed to the native connect call is
\* min(t, 2^31 - 1) for the caller's t milliseconds: 5,000,000,000 becomes
\* i32::MAX and 0 stays 0.
C17_TimeoutClamped ==
    call \in {"connect_peer_with_address", "connect_peer_with_id"} =>
        /\ MsLeq(out, arg)
        /\ MsLeq(out, i32_MAX)
        /\ out = arg \/ out = i32_MAX
        /\ arg = FiveBillionMs => out = i32_MAX
        /\ arg = ZeroMs => out = ZeroMs

C17_Witness ==
    /\ call \in {"connect_peer_with_address", "connect_peer_with_id"}
    /\ arg = FiveBillionMs
    /\ out = i32_MAX

====
